---- MODULE Spec2Model ----
(***************************************************************************)
(* alertmanager-discord: the HTTP handler of main(), sendWebhook,          *)
(* fireMessageOut, valueConv, getSeverityColor and sendRawPromAlertWarn of *)
(* src/main.go (the second, current copy of the program, lines 245-553).   *)
(*                                                                         *)
(* One behaviour is the handling of one inbound request.  Text is kept as  *)
(* text where TLC can build it (ToString, \o); a formatted line is a       *)
(* record naming its format verb and its arguments, and a string joined    *)
(* with "\n" is the sequence of the joined pieces.                         *)
(***************************************************************************)
EXTENDS Integers, Sequences, FiniteSets, TLC

VARIABLES
    pc,      \* position of the handler
    tz,      \* value of os.Getenv("TZ"), fixed for the process
    body,    \* b, the request body
    amo,     \* amo.Alerts after json.Unmarshal
    idx,     \* 1-based position of the range loop over amo.Alerts
    embeds,  \* the local slice embeds of sendWebhook
    off,     \* i of the bulk-send loop
    posts,   \* the http.Post calls made so far, with their outcome
    logs,    \* the lines written with the log package
    resp     \* what the caller of the handler gets

vars == <<pc, tz, body, amo, idx, embeds, off, posts, logs, resp>>

(***************************** bounds *************************************)
MaxAlerts == 25
MaxLabels == 2
MaxTime == 2
MaxOver == 2

(************************** program constants *****************************)
MaxDiscordEmbed == 10
ColorRed == 10038562
ColorOrange == 15775766
ColorGreen == 3066993
ColorGrey == 9807270
ColorBlue == 5814783
LogLimit == 1024
LogSlice == 1023
StatusBadRequest == 400
zeroTimeSec == -1

(****************************** inputs ************************************)
\* A timestamp string: RFC3339 text for the instant sec, or other text.
TimeStrings ==
    {[rfc3339 |-> FALSE, sec |-> 0]} \cup {[rfc3339 |-> TRUE, sec |-> n] : n \in 1..MaxTime}

LabelKeys == {"severity", "instance", "value", "metrics_value", "metrics_conv", "metrics_unit"}

ValuesOf(k) ==
    CASE k = "severity" -> {"debug", "info", "warning", "critical", "normal", ""}
      [] k = "instance" -> {"host1"}
      [] k = "value" -> {"42"}
      [] k = "metrics_value" -> {"1", "3661", "abc"}
      [] k = "metrics_conv" -> {"duration", "timestamp", "updown", ""}
      [] k = "metrics_unit" -> {"s"}

LabelValues == UNION {ValuesOf(k) : k \in LabelKeys}

LabelMaps ==
    UNION {{f \in [K -> LabelValues] : \A k \in K : f[k] \in ValuesOf(k)} :
              K \in {S \in SUBSET LabelKeys : Cardinality(S) <= MaxLabels}}

Statuses == {"firing", "resolved", "pending"}

summaryOf(k) == "alert-" \o ToString(k)

Alerts ==
    [Status : Statuses, Labels : LabelMaps, StartsAt : TimeStrings, EndsAt : TimeStrings,
     Summary : {summaryOf(1)}, Description : {<<"disk full", "on /var">>}]

bulkAlert(st, k) ==
    [Status |-> st, Labels |-> <<>>, StartsAt |-> [rfc3339 |-> TRUE, sec |-> 1],
     EndsAt |-> [rfc3339 |-> FALSE, sec |-> 0], Summary |-> summaryOf(k),
     Description |-> <<"disk full">>]

Groups ==
    {<<>>} \cup {<<a>> : a \in Alerts}
           \cup {[k \in 1..n |-> bulkAlert(st, k)] : n \in 2..MaxAlerts, st \in {"firing", "resolved"}}

BodyLens == {0, 1} \cup ((LogLimit - 2)..(LogLimit + MaxOver))

\* A request body: JSON text of an alert group, JSON text of raw Prometheus
\* alerts, or anything else; len is its length in bytes.
Bodies ==
    {[shape |-> "alertgroup", len |-> 2 + Len(g), alerts |-> g] : g \in Groups}
    \cup {[shape |-> s, len |-> n, alerts |-> <<>>] : s \in {"promalerts", "garbage"}, n \in BodyLens}

TZNames == {"", "Asia/Bangkok", "Mars/Phobos"}

KnownZones == {"Asia/Bangkok"}

\* Outcome of one http.Post: a transport error, or a response status.
Outcomes ==
    {[err |-> TRUE, StatusCode |-> 0], [err |-> FALSE, StatusCode |-> 204],
     [err |-> FALSE, StatusCode |-> 400]}

(************************** library functions *****************************)
LoadLocation(name) ==
    IF name = "" THEN [err |-> FALSE, loc |-> "UTC"]
    ELSE IF name \in KnownZones THEN [err |-> FALSE, loc |-> name]
    ELSE [err |-> TRUE, loc |-> "nil"]

ParseTime(s) ==
    IF s.rfc3339 THEN [sec |-> s.sec, loc |-> "UTC"] ELSE [sec |-> zeroTimeSec, loc |-> "UTC"]

In(t, loc) == [sec |-> t.sec, loc |-> loc]

After(t, u) == t.sec > u.sec

Format(t) == "t" \o ToString(t.sec) \o "@" \o t.loc

DurationString(d) ==
    IF d = 0 THEN "0s"
    ELSE IF d < 60 THEN ToString(d) \o "s"
    ELSE IF d < 3600 THEN ToString(d \div 60) \o "m" \o ToString(d % 60) \o "s"
    ELSE ToString(d \div 3600) \o "h" \o ToString((d % 3600) \div 60) \o "m"
             \o ToString(d % 60) \o "s"

ParseFloat(s) ==
    CASE s = "1" -> 1
      [] s = "3661" -> 3661
      [] OTHER -> 0

ToUpper(s) ==
    CASE s = "firing" -> "FIRING"
      [] s = "resolved" -> "RESOLVED"
      [] s = "pending" -> "PENDING"
      [] s = "normal" -> "NORMAL"
      [] s = "debug" -> "DEBUG"
      [] s = "info" -> "INFO"
      [] s = "warning" -> "WARNING"
      [] s = "critical" -> "CRITICAL"
      [] OTHER -> s

HasPrefixMetrics(k) == k \in {"metrics_value", "metrics_conv", "metrics_unit"}

Perms(S) == {p \in [1..Cardinality(S) -> S] : \A i, j \in 1..Cardinality(S) : p[i] = p[j] => i = j}

Min(a, b) == IF a < b THEN a ELSE b

(****************************** the program *******************************)
valueConv(v, conv) ==
    CASE conv = "duration" -> DurationString(v)
      [] conv = "timestamp" -> Format([sec |-> v, loc |-> "Local"])
      [] conv = "updown" -> IF v = 1 THEN "up" ELSE "down"
      [] OTHER -> ToString(v) \o ".00"

\* Mutant of getSeverityColor: an unknown severity falls back to grey.
getSeverityColor_defaultGrey(severity) ==
    CASE severity = "debug" -> ColorGrey
      [] severity = "info" -> ColorBlue
      [] severity = "warning" -> ColorOrange
      [] severity = "critical" -> ColorRed
      [] OTHER -> ColorGrey

getSeverityColor(severity) ==
    CASE severity = "debug" -> ColorGrey
      [] severity = "info" -> ColorBlue
      [] severity = "warning" -> ColorOrange
      [] severity = "critical" -> ColorRed
      [] OTHER -> ColorRed

\* Mutant of alertStatus: the resolved case sets the colour only.
alertStatus_resolvedKeepsStatus(alert) ==
    IF alert.Status = "firing" THEN
        LET status == IF "severity" \in DOMAIN alert.Labels
                      THEN alert.Labels["severity"] ELSE alert.Status
        IN  [status |-> status, Color |-> getSeverityColor(status)]
    ELSE IF alert.Status = "resolved" THEN [status |-> alert.Status, Color |-> ColorGreen]
    ELSE [status |-> alert.Status, Color |-> ColorGrey]

\* The switch on alert.Status: the display status and the colour.
alertStatus(alert) ==
    IF alert.Status = "firing" THEN
        LET status == IF "severity" \in DOMAIN alert.Labels
                      THEN alert.Labels["severity"] ELSE alert.Status
        IN  [status |-> status, Color |-> getSeverityColor(status)]
    ELSE IF alert.Status = "resolved" THEN [status |-> "normal", Color |-> ColorGreen]
    ELSE [status |-> alert.Status, Color |-> ColorGrey]

\* The keys the range loop over alert.Labels renders as ordinary labels.
renderedKeys(alert) == {k \in DOMAIN alert.Labels : ~HasPrefixMetrics(k) /\ k # "value"}

metricsValue(alert) ==
    IF "metrics_value" \in DOMAIN alert.Labels THEN ParseFloat(alert.Labels["metrics_value"]) ELSE 0

metricsConv(alert) ==
    IF "metrics_conv" \in DOMAIN alert.Labels THEN alert.Labels["metrics_conv"] ELSE ""

\* Mutant of labelLines: the value line is appended for every alert.
labelLines_alwaysValue(alert, status, order) ==
    [n \in 1..Len(order) |-> [key |-> order[n], val |-> alert.Labels[order[n]]]]
    \o <<[key |-> "value", val |-> valueConv(metricsValue(alert), metricsConv(alert))]>>

\* labels: one line per rendered key in the order the map is ranged over,
\* then the value line unless the display status is "normal".
labelLines(alert, status, order) ==
    [n \in 1..Len(order) |-> [key |-> order[n], val |-> alert.Labels[order[n]]]]
    \o (IF status # "normal"
        THEN <<[key |-> "value", val |-> valueConv(metricsValue(alert), metricsConv(alert))]>>
        ELSE <<>>)

descriptionLines(alert) ==
    [n \in 1..Len(alert.Description) |-> [bullet |-> alert.Description[n]]]

\* Mutant of embedDescribe: the description only for an abnormal status and
\* the duration block only for a normal one.
embedDescribe_byStatus(status, startAt, endAt, labels, description) ==
    LET eventTime == IF After(endAt, startAt) THEN endAt ELSE startAt
    IN  <<[part |-> "event time", text |-> Format(eventTime)],
          [part |-> "labels", lines |-> labels]>>
        \o (IF status # "normal"
            THEN <<[part |-> "------"],
                   [part |-> "description", lines |-> description]>>
            ELSE IF After(endAt, startAt)
            THEN <<[part |-> "------"],
                   [part |-> "duration", text |-> DurationString(endAt.sec - startAt.sec)],
                   [part |-> "start", text |-> Format(startAt)],
                   [part |-> "end", text |-> Format(endAt)]>>
            ELSE <<>>)

\* embedDescribe: the pieces joined with "\n" into embed.Description.
embedDescribe(status, startAt, endAt, labels, description) ==
    LET eventTime == IF After(endAt, startAt) THEN endAt ELSE startAt
    IN  <<[part |-> "event time", text |-> Format(eventTime)],
          [part |-> "labels", lines |-> labels],
          [part |-> "------"],
          [part |-> "description", lines |-> description]>>
        \o (IF After(endAt, startAt)
            THEN <<[part |-> "------"],
                   [part |-> "duration", text |-> DurationString(endAt.sec - startAt.sec)],
                   [part |-> "start", text |-> Format(startAt)],
                   [part |-> "end", text |-> Format(endAt)]>>
            ELSE <<>>)

\* One iteration of the loop over amo.Alerts, once loc is loaded.
renderAlert(alert, loc, order) ==
    LET st == alertStatus(alert)
        startAt == In(ParseTime(alert.StartsAt), loc)
        endAt == In(ParseTime(alert.EndsAt), loc)
    IN  [Title |-> <<"[", ToUpper(st.status), "] ", alert.Summary>>,
         Description |-> embedDescribe(st.status, startAt, endAt,
                                       labelLines(alert, st.status, order),
                                       descriptionLines(alert)),
         Color |-> st.Color,
         Fields |-> <<>>]

Content == "=== Alert: " \o "discord" \o " - " \o "DiskFull" \o " ==="

\* The log lines of fireMessageOut for one outcome of http.Post.
fireMessageOut(msg, out) ==
    IF out.err THEN <<[line |-> "Send discord error -:"]>>
    ELSE IF out.StatusCode >= StatusBadRequest
         THEN <<[line |-> "Discord server return error -:", StatusCode |-> out.StatusCode]>>
         ELSE <<>>

isRawPromAlert(b) == b.shape = "promalerts"

badString == "This program is suppose to be fed by alertmanager. ..."

warnMessage ==
    [Content |-> "",
     Embeds |-> <<[Title |-> <<"You have misconfigured this software">>,
                   Description |-> <<badString>>, Color |-> ColorGrey, Fields |-> <<>>]>>]

\* The text logged for a body that is neither an alert group nor raw
\* Prometheus alerts: a prefix of b (its length) and whether "..." follows.
unpackLog(b) ==
    IF b.len > LogLimit
    THEN [line |-> "Failed to unpack inbound alert request - ", prefix |-> LogSlice, dots |-> TRUE]
    ELSE [line |-> "Failed to unpack inbound alert request - ", prefix |-> b.len, dots |-> FALSE]

\* Mutant of decodeBranch: the foreign-shape test is skipped.
decodeBranch_noForeignCheck(b) ==
    IF b.shape # "alertgroup" THEN "unpack" ELSE "sendWebhook"

\* Where the handler goes after json.Unmarshal(b, &amo).
decodeBranch(b) ==
    IF b.shape # "alertgroup"
    THEN IF isRawPromAlert(b) THEN "warn" ELSE "unpack"
    ELSE "sendWebhook"

noResponse == [sent |-> FALSE, StatusCode |-> 0, bodyLen |-> 0]

panicLine(why) == [line |-> "http: panic serving", why |-> why]

(******************************* actions **********************************)
Init ==
    /\ pc = "idle"
    /\ tz \in TZNames
    /\ body = [shape |-> "garbage", len |-> 0, alerts |-> <<>>]
    /\ amo = <<>>
    /\ idx = 1
    /\ embeds = <<>>
    /\ off = 0
    /\ posts = <<>>
    /\ logs = <<>>
    /\ resp = noResponse

\* The server calls the handler with a request.
Receive ==
    /\ pc = "idle"
    /\ \E b \in Bodies : body' = b
    /\ pc' = "read"
    /\ UNCHANGED <<tz, amo, idx, embeds, off, posts, logs, resp>>

\* ioutil.ReadAll(r.Body); panic(err) when it fails.
ReadBody ==
    /\ pc = "read"
    /\ \E ok \in BOOLEAN :
          IF ok
          THEN /\ pc' = "decode"
               /\ logs' = logs
          ELSE /\ pc' = "aborted"
               /\ logs' = Append(logs, panicLine("read"))
    /\ UNCHANGED <<tz, body, amo, idx, embeds, off, posts, resp>>

\* json.Unmarshal and the error branch of the handler.
Decode ==
    /\ pc = "decode"
    /\ LET to == decodeBranch(body)
       IN  /\ pc' = IF to = "sendWebhook"
                    THEN (IF Len(body.alerts) = 0 THEN "send" ELSE "render")
                    ELSE IF to = "warn" THEN "warn" ELSE "return"
           /\ amo' = IF to = "sendWebhook" THEN body.alerts ELSE amo
           /\ logs' = IF to = "unpack" THEN Append(logs, unpackLog(body)) ELSE logs
    /\ UNCHANGED <<tz, body, idx, embeds, off, posts, resp>>

\* sendRawPromAlertWarn: three log lines and one http.Post, its result dropped.
SendRawPromAlertWarn ==
    /\ pc = "warn"
    /\ \E out \in Outcomes : posts' = Append(posts, [msg |-> warnMessage, out |-> out])
    /\ logs' = logs \o <<[line |-> "You have misconfigured this software"],
                         [line |-> "--- --"], [line |-> badString]>>
    /\ pc' = "return"
    /\ UNCHANGED <<tz, body, amo, idx, embeds, off, resp>>

\* One iteration of the loop of sendWebhook over amo.Alerts.  The error of
\* time.LoadLocation is dropped, and Time.In panics on a nil *Location.
RenderAlert ==
    /\ pc = "render"
    /\ idx <= Len(amo)
    /\ LET l == LoadLocation(tz)
       IN  IF l.err
           THEN /\ pc' = "aborted"
                /\ logs' = Append(logs, panicLine("time: missing Location in call to Time.In"))
                /\ UNCHANGED <<idx, embeds>>
           ELSE /\ \E order \in Perms(renderedKeys(amo[idx])) :
                      embeds' = Append(embeds, renderAlert(amo[idx], l.loc, order))
                /\ idx' = idx + 1
                /\ pc' = IF idx = Len(amo) THEN "send" ELSE "render"
                /\ logs' = logs
    /\ UNCHANGED <<tz, body, amo, off, posts, resp>>

\* len(embeds) <= MaxDiscordEmbed: one message with all the embeds.
FireSingle ==
    /\ pc = "send"
    /\ ~(Len(embeds) > MaxDiscordEmbed)
    /\ \E out \in Outcomes :
          LET DO == [Content |-> Content, Embeds |-> embeds]
          IN  /\ posts' = Append(posts, [msg |-> DO, out |-> out])
              /\ logs' = logs \o fireMessageOut(DO, out)
    /\ pc' = "return"
    /\ UNCHANGED <<tz, body, amo, idx, embeds, off, resp>>

\* Mutant of FireBulk: a failed POST ends the loop.
FireBulk_stopOnError ==
    /\ pc = "send"
    /\ Len(embeds) > MaxDiscordEmbed
    /\ off < Len(embeds)
    /\ \E out \in Outcomes :
          LET DO == [Content |-> Content,
                     Embeds |-> IF off + MaxDiscordEmbed <= Len(embeds)
                                THEN SubSeq(embeds, off + 1, off + MaxDiscordEmbed)
                                ELSE SubSeq(embeds, off + 1, Len(embeds))]
          IN  /\ posts' = Append(posts, [msg |-> DO, out |-> out])
              /\ logs' = logs \o fireMessageOut(DO, out)
              /\ pc' = IF off + MaxDiscordEmbed < Len(embeds) /\ fireMessageOut(DO, out) = <<>>
                       THEN "send" ELSE "return"
    /\ off' = off + MaxDiscordEmbed
    /\ UNCHANGED <<tz, body, amo, idx, embeds, resp>>

\* One iteration of the bulk-send loop.
FireBulk ==
    /\ pc = "send"
    /\ Len(embeds) > MaxDiscordEmbed
    /\ off < Len(embeds)
    /\ \E out \in Outcomes :
          LET DO == [Content |-> Content,
                     Embeds |-> IF off + MaxDiscordEmbed <= Len(embeds)
                                THEN SubSeq(embeds, off + 1, off + MaxDiscordEmbed)
                                ELSE SubSeq(embeds, off + 1, Len(embeds))]
          IN  /\ posts' = Append(posts, [msg |-> DO, out |-> out])
              /\ logs' = logs \o fireMessageOut(DO, out)
    /\ off' = off + MaxDiscordEmbed
    /\ pc' = IF off + MaxDiscordEmbed < Len(embeds) THEN "send" ELSE "return"
    /\ UNCHANGED <<tz, body, amo, idx, embeds, resp>>

\* The handler returns without writing: the server answers 200, no body.
Return ==
    /\ pc = "return"
    /\ resp' = [sent |-> TRUE, StatusCode |-> 200, bodyLen |-> 0]
    /\ pc' = "done"
    /\ UNCHANGED <<tz, body, amo, idx, embeds, off, posts, logs>>

Next ==
    \/ Receive
    \/ ReadBody
    \/ Decode
    \/ SendRawPromAlertWarn
    \/ RenderAlert
    \/ FireSingle
    \/ FireBulk
    \/ Return

Spec == Init /\ [][Next]_vars

(************************* auxiliary definitions **************************)
ended == pc \in {"done", "aborted"}

readFailed == pc = "aborted" /\ logs[Len(logs)].why = "read"

failed(out) == out.err \/ out.StatusCode >= 400

numMessages(n) == IF n = 0 THEN 1 ELSE (n + 9) \div 10

secOf(s) == IF s.rfc3339 THEN s.sec ELSE zeroTimeSec

partsOf(e) == [n \in 1..Len(e.Description) |-> e.Description[n].part]

valueLines(e) ==
    {n \in 1..Len(e.Description[2].lines) : e.Description[2].lines[n].key = "value"}

(******************************** claims **********************************)
\* C1 (as stated): once the handler has ended on a decoded group of N alerts,
\* exactly ceil(N/10) messages were posted (one, with no unit, when N = 0),
\* and message k carries the units of alerts 10(k-1)+1 .. min(10k, N) in order.
C1_Original ==
    (ended /\ body.shape = "alertgroup" /\ ~readFailed) =>
        LET N == Len(amo)
        IN  /\ Len(posts) = numMessages(N)
            /\ \A k \in 1..Len(posts) :
                  LET E == posts[k].msg.Embeds
                  IN  /\ Len(E) <= 10
                      /\ Len(E) = Min(10 * k, N) - 10 * (k - 1)
                      /\ \A j \in 1..Len(E) : E[j].Title[4] = amo[10 * (k - 1) + j].Summary

\* C1, the part the code keeps: whenever every alert was rendered and the
\* handler returned, the messages are the consecutive runs of ten units.
BatchingWhenRendered ==
    (pc = "done" /\ body.shape = "alertgroup") =>
        LET N == Len(amo)
        IN  /\ Len(embeds) = N
            /\ Len(posts) = numMessages(N)
            /\ \A k \in 1..Len(posts) :
                  posts[k].msg.Embeds = SubSeq(embeds, 10 * (k - 1) + 1, Min(10 * k, N))
            /\ \A j \in 1..N : embeds[j].Title[4] = amo[j].Summary

\* C2: a group that yields k messages gets exactly k POST attempts, one per
\* message in batch order, whatever the outcomes; each failure is logged once,
\* none is retried, the caller still gets its 200, and while messages remain
\* the next attempt is enabled.
C2_OnePostPerMessage ==
    /\ (pc = "send" /\ body.shape = "alertgroup") =>
          /\ Len(posts) < numMessages(Len(embeds))
          /\ ENABLED (FireSingle \/ FireBulk)
    /\ (pc \in {"return", "done"} /\ body.shape = "alertgroup") =>
          /\ Len(posts) = numMessages(Len(embeds))
          /\ \A k \in 1..Len(posts) :
                posts[k].msg.Embeds =
                    SubSeq(embeds, 10 * (k - 1) + 1, Min(10 * k, Len(embeds)))
          /\ Len(logs) = Cardinality({k \in 1..Len(posts) : failed(posts[k].out)})
    /\ (pc = "done" /\ body.shape = "alertgroup") => resp.StatusCode = 200

C2_Witness ==
    /\ pc = "done"
    /\ Len(posts) = 3
    /\ posts[1].out.err
    /\ posts[2].out.StatusCode = 400
    /\ posts[3].out.StatusCode = 204

\* C3: when the body does not decode, nothing is rendered or batched; a body
\* of the foreign shape gets exactly one POST, the fixed warning, and any
\* other body gets none and is only logged.
C3_DecodeFailure ==
    (pc # "idle" /\ body.shape # "alertgroup") =>
        /\ embeds = <<>> /\ amo = <<>> /\ idx = 1 /\ off = 0
        /\ pc \in {"return", "done"} =>
              IF isRawPromAlert(body)
              THEN /\ Len(posts) = 1
                   /\ Len(posts[1].msg.Embeds) = 1
                   /\ posts[1].msg.Embeds[1].Title = <<"You have misconfigured this software">>
                   /\ posts[1].msg.Embeds[1].Description = <<badString>>
              ELSE /\ posts = <<>>
                   /\ Len(logs) = 1
                   /\ logs[1].line = "Failed to unpack inbound alert request - "

C3_Witness == pc = "done" /\ body.shape = "promalerts" /\ Len(posts) = 1 /\ posts[1].out.err

\* C4 (as stated): every request ends with the handler returning and the
\* caller receiving 200 with an empty body.
C4_Original ==
    ended => (pc = "done" /\ resp.sent /\ resp.StatusCode = 200 /\ resp.bodyLen = 0)

\* C5: the unit rendered for a resolved alert is green and its title starts
\* with "[NORMAL] ", whatever its labels.
C5_Resolved ==
    \A k \in 1..Len(embeds) :
        amo[k].Status = "resolved" =>
            /\ embeds[k].Color = 3066993
            /\ SubSeq(embeds[k].Title, 1, 3) = <<"[", "NORMAL", "] ">>

C5_Witness ==
    \E k \in 1..Len(embeds) :
        /\ amo[k].Status = "resolved"
        /\ "severity" \in DOMAIN amo[k].Labels
        /\ amo[k].Labels["severity"] = "critical"

\* C6: the unit rendered for a firing alert shows the severity label, or
\* "firing" without one, and has the colour of that display status: grey for
\* debug, blue for info, orange for warning, red for everything else.
C6_Firing ==
    \A k \in 1..Len(embeds) :
        amo[k].Status = "firing" =>
            LET d == IF "severity" \in DOMAIN amo[k].Labels
                     THEN amo[k].Labels["severity"] ELSE "firing"
            IN  /\ embeds[k].Title[2] = ToUpper(d)
                /\ embeds[k].Color = CASE d = "debug" -> 9807270
                                       [] d = "info" -> 5814783
                                       [] d = "warning" -> 15775766
                                       [] OTHER -> 10038562

C6_Witness ==
    \E k \in 1..Len(embeds) :
        /\ amo[k].Status = "firing"
        /\ "severity" \notin DOMAIN amo[k].Labels
        /\ embeds[k].Title[2] = "FIRING"
        /\ embeds[k].Color = 10038562

\* C7: every body is event time, labels, separator, description, for every
\* status; separator, duration, start and end follow exactly when the parsed
\* end is after the parsed start; the event time is the end then, else the start.
C7_Body ==
    \A k \in 1..Len(embeds) :
        LET s == secOf(amo[k].StartsAt)
            e == secOf(amo[k].EndsAt)
        IN  /\ partsOf(embeds[k]) =
                  <<"event time", "labels", "------", "description">>
                  \o (IF e > s THEN <<"------", "duration", "start", "end">> ELSE <<>>)
            /\ embeds[k].Description[1].text =
                  Format([sec |-> IF e > s THEN e ELSE s, loc |-> LoadLocation(tz).loc])

C7_Witness ==
    \E k \in 1..Len(embeds) :
        /\ amo[k].Status = "firing"
        /\ secOf(amo[k].EndsAt) > secOf(amo[k].StartsAt)
        /\ Len(embeds[k].Description) = 8

\* C8 (as stated): every firing alert gets exactly one value line and every
\* resolved alert gets none.
C8_Original ==
    \A k \in 1..Len(embeds) :
        /\ amo[k].Status = "firing" => Cardinality(valueLines(embeds[k])) = 1
        /\ amo[k].Status = "resolved" => Cardinality(valueLines(embeds[k])) = 0

\* C8 (amended): a firing alert whose severity label is absent or is not
\* "normal" gets exactly one value line, the last of the labels block, built
\* from metrics_value and metrics_conv (0.0 and the empty tag by default); a
\* firing alert whose severity label is "normal" gets none, and so does every
\* resolved alert.
C8_Amended ==
    \A k \in 1..Len(embeds) :
        LET a == amo[k]
            lines == embeds[k].Description[2].lines
            sevNormal == "severity" \in DOMAIN a.Labels /\ a.Labels["severity"] = "normal"
        IN  /\ (a.Status = "firing" /\ ~sevNormal) =>
                  /\ valueLines(embeds[k]) = {Len(lines)}
                  /\ lines[Len(lines)].val = valueConv(metricsValue(a), metricsConv(a))
                  /\ ({"metrics_value", "metrics_conv"} \cap DOMAIN a.Labels = {}) =>
                        lines[Len(lines)].val = "0.00"
            /\ (a.Status = "firing" /\ sevNormal) => valueLines(embeds[k]) = {}
            /\ a.Status = "resolved" => valueLines(embeds[k]) = {}

C8_Witness ==
    \E k \in 1..Len(embeds) :
        /\ amo[k].Status = "firing"
        /\ "severity" \in DOMAIN amo[k].Labels
        /\ amo[k].Labels["severity"] = "normal"
        /\ valueLines(embeds[k]) = {}

\* C9 (as stated): rendering never aborts, whatever the timezone name: the
\* handler of a decoded group never ends in a panic, and past the loop there
\* is one unit per alert.
C9_Original ==
    /\ (ended /\ body.shape = "alertgroup" /\ ~readFailed) => pc = "done"
    /\ (pc \in {"send", "return", "done"} /\ body.shape = "alertgroup") =>
          Len(embeds) = Len(amo)

\* C10 (as stated): the logged payload is the first min(len(body), 1024)
\* bytes of the body, followed by the ellipsis exactly when len(body) > 1024.
C10_Original ==
    (pc \in {"return", "done"} /\ body.shape = "garbage") =>
        /\ logs[1].prefix = Min(body.len, 1024)
        /\ logs[1].dots = (body.len > 1024)

====
